---- MODULE Spec2Model ----
(***************************************************************************)
(* A model of the nerva compiler front end: the chunked Arena              *)
(* (src/src/arena.rs), the string Interner (src/src/common.rs) and the     *)
(* Lexer (src/src/lexer.rs).  Each component has its own specification;    *)
(* the variables of the other components stay at their initial values.     *)
(***************************************************************************)
EXTENDS Integers, Sequences, FiniteSets, TLC

VARIABLES
    \* ---- Arena<T> and the caller that drives it
    arena,      \* the Arena: [chunks, chunk, chunk_size]
    ids,        \* the handles returned by the alloc calls, in call order
    expected,   \* per alloc call, the item the caller last stored there
    mutated,    \* TRUE once a get_mut call returned a reference
    wild,       \* TRUE once get_mut returned a reference for an id >= len()
    ret,        \* the last Arena call and what it returned
    panicked,   \* TRUE once an Arena call panicked
    \* ---- Interner and its caller
    interner,   \* the Interner: [strings, map]
    first,      \* per string interned so far, the Symbol of its first call
    icalls,     \* number of intern calls made
    iret,       \* the last Interner call, what it returned, the interner before
    seen,       \* the distinct strings interned so far, in order of first call
    \* ---- Lexer and the loop that pulls tokens from it
    input,      \* the source text, a sequence of characters
    chars,      \* the char iterator: number of characters consumed
    pos,        \* byte offset past the last consumed character
    out,        \* the tokens returned so far, in order
    calls,      \* number of next_token calls made
    lpanic,     \* "" or the message of the panic that ended lexing
    \* ---- CompilerCtx and its caller
    ctx,        \* the CompilerCtx: [interner, ast, diagnostics, target, current_pass]
    reported,   \* the arguments of the report calls made so far, in order
    ccalls,     \* number of CompilerCtx calls made
    cret        \* the last CompilerCtx call, the context before it, its result

arenaVars == <<arena, ids, expected, mutated, wild, ret, panicked>>
internerVars == <<interner, first, icalls, iret, seen>>
lexerVars == <<input, chars, pos, out, calls, lpanic>>
ctxVars == <<ctx, reported, ccalls, cret>>
vars == <<arenaVars, internerVars, lexerVars, ctxVars>>

(***************************************************************************)
(* Bounds of the model.                                                    *)
(***************************************************************************)
MaxChunkSize == 3
MaxAllocs == 4

Items == {"x", "y"}
ChunkSizes == 0..MaxChunkSize
Handles == 0..(MaxAllocs + MaxChunkSize)

(***************************************************************************)
(* NodeId<T>: a u32 index.                                                 *)
(***************************************************************************)
\* `n as u32`: n modulo 2^32, computed on 16-bit halves.
AsU32(n) == (n % 65536) + 65536 * ((n \div 65536) % 65536)

NodeId_new(idx) == idx

index(id) == id

(***************************************************************************)
(* Arena<T>                                                                *)
(***************************************************************************)
Arena_new(chunk_size) ==
    [chunks |-> <<>>, chunk |-> <<>>, chunk_size |-> chunk_size]

\* A slip of len: the elements of the current chunk are not counted.
len_SealedOnly(a) == Len(a.chunks) * a.chunk_size

len(a) == Len(a.chunks) * a.chunk_size + Len(a.chunk)

is_empty(a) == len(a) = 0

iter_ids(a) == [i \in 1..len(a) |-> NodeId_new(AsU32(i - 1))]

\* The outcome of an indexing expression: a panic, or the place it denotes.
Panic == [panic |-> TRUE, sealed |-> FALSE, chunk_id |-> 0, offset |-> 0]
Place(sealed, chunk_id, offset) ==
    [panic |-> FALSE, sealed |-> sealed, chunk_id |-> chunk_id, offset |-> offset]

\* vec[offset] with Vec's bounds check.
VecIndex(vec, sealed, chunk_id, offset) ==
    IF offset < Len(vec) THEN Place(sealed, chunk_id, offset) ELSE Panic

\* A slip of alloc: the chunk is sealed one element late (> for >=).
alloc_SealLate(a, item) ==
    LET idx == Len(a.chunks) * a.chunk_size + Len(a.chunk)
        pushed == Append(a.chunk, item)
    IN  [arena |-> IF Len(pushed) > a.chunk_size
                   THEN [a EXCEPT !.chunks = Append(a.chunks, pushed),
                                  !.chunk = <<>>]
                   ELSE [a EXCEPT !.chunk = pushed],
         id |-> idx]

\* A slip of alloc: the current chunk is never sealed.
alloc_NeverSeal(a, item) ==
    [arena |-> [a EXCEPT !.chunk = Append(a.chunk, item)],
     id |-> NodeId_new(AsU32(len(a)))]

\* alloc: the arena after the call and the handle returned.
alloc(a, item) ==
    LET idx == len(a)
        pushed == Append(a.chunk, item)
    IN  [arena |-> IF Len(pushed) >= a.chunk_size
                   THEN [a EXCEPT !.chunks = Append(a.chunks, pushed),
                                  !.chunk = <<>>]
                   ELSE [a EXCEPT !.chunk = pushed],
         id |-> NodeId_new(AsU32(idx))]

\* get: the place of the element the returned reference points to.
get(a, id) ==
    LET idx == index(id)
    IN  IF a.chunk_size = 0
        THEN Panic    \* idx / 0: attempt to divide by zero
        ELSE LET chunk_id == idx \div a.chunk_size
                 offset == idx % a.chunk_size
             IN  IF chunk_id < Len(a.chunks)
                 THEN VecIndex(a.chunks[chunk_id + 1], TRUE, chunk_id, offset)
                 ELSE VecIndex(a.chunk, FALSE, chunk_id, offset)

\* A slip of get_mut: the sealed chunks are forgotten.
get_mut_CurrentOnly(a, id) ==
    IF a.chunk_size = 0
    THEN Panic
    ELSE VecIndex(a.chunk, FALSE, id \div a.chunk_size, id % a.chunk_size)

\* get_mut: the same arithmetic, for a mutable reference.
get_mut(a, id) ==
    LET idx == index(id)
    IN  IF a.chunk_size = 0
        THEN Panic
        ELSE LET chunk_id == idx \div a.chunk_size
                 offset == idx % a.chunk_size
             IN  IF chunk_id < Len(a.chunks)
                 THEN VecIndex(a.chunks[chunk_id + 1], TRUE, chunk_id, offset)
                 ELSE VecIndex(a.chunk, FALSE, chunk_id, offset)

\* Reading through a reference.
Deref(a, p) ==
    IF p.sealed THEN a.chunks[p.chunk_id + 1][p.offset + 1]
    ELSE a.chunk[p.offset + 1]

\* Assigning through a mutable reference: *arena.get_mut(id) = v.
Assign(a, p, v) ==
    IF p.sealed
    THEN [a EXCEPT !.chunks[p.chunk_id + 1][p.offset + 1] = v]
    ELSE [a EXCEPT !.chunk[p.offset + 1] = v]

\* What the caller keeps of a call: the call, its result, and the arena
\* as it was before the call.
Ret(op, id, item, panic, val, before) ==
    [op |-> op, id |-> id, item |-> item, panic |-> panic, val |-> val,
     pre_len |-> len(before), before |-> before]

NoRet == Ret("new", 0, "", FALSE, "", Arena_new(0))

ArenaInit ==
    /\ \E k \in ChunkSizes : arena = Arena_new(k)
    /\ ids = <<>>
    /\ expected = <<>>
    /\ mutated = FALSE
    /\ wild = FALSE
    /\ ret = NoRet
    /\ panicked = FALSE

Alloc(item) ==
    /\ ~panicked
    /\ Len(ids) < MaxAllocs
    /\ LET r == alloc(arena, item)
       IN  /\ arena' = r.arena
           /\ ids' = Append(ids, r.id)
           /\ ret' = Ret("alloc", r.id, item, FALSE, "", arena)
    /\ expected' = Append(expected, item)
    /\ UNCHANGED <<mutated, wild, panicked>>
    /\ UNCHANGED <<internerVars, lexerVars, ctxVars>>

Get(id) ==
    /\ ~panicked
    /\ LET p == get(arena, id)
       IN  /\ ret' = Ret("get", id, "", p.panic,
                          IF p.panic THEN "" ELSE Deref(arena, p), arena)
           /\ panicked' = p.panic
    /\ UNCHANGED <<arena, ids, expected, mutated, wild>>
    /\ UNCHANGED <<internerVars, lexerVars, ctxVars>>

GetMut(id, v) ==
    /\ ~panicked
    /\ LET p == get_mut(arena, id)
       IN  /\ ret' = Ret("get_mut", id, v, p.panic, "", arena)
           /\ panicked' = p.panic
           /\ arena' = IF p.panic THEN arena ELSE Assign(arena, p, v)
           /\ mutated' = (mutated \/ ~p.panic)
           /\ wild' = (wild \/ (~p.panic /\ index(id) >= len(arena)))
           /\ expected' = IF ~p.panic /\ index(id) < len(arena)
                          THEN [expected EXCEPT ![index(id) + 1] = v]
                          ELSE expected
    /\ UNCHANGED ids
    /\ UNCHANGED <<internerVars, lexerVars, ctxVars>>

ArenaNext ==
    \/ \E item \in Items : Alloc(item)
    \/ \E id \in Handles : Get(id)
    \/ \E id \in Handles, v \in Items : GetMut(id, v)

(***************************************************************************)
(* Interner                                                                *)
(***************************************************************************)
MaxInternCalls == 4

Strs == {"", "a", "b", "ab"}

Interner_new == [strings |-> <<>>, map |-> <<>>]

\* HashMap::insert
MapInsert(m, k, v) ==
    [x \in (DOMAIN m) \cup {k} |-> IF x = k THEN v ELSE m[x]]

\* A slip of intern: the index is taken after the push.
intern_LenAfterPush(in, s) ==
    IF s \in DOMAIN in.map
    THEN [interner |-> in, sym |-> in.map[s]]
    ELSE LET pushed == Append(in.strings, s)
             idx == AsU32(Len(pushed))
         IN  [interner |-> [strings |-> pushed,
                            map |-> MapInsert(in.map, s, idx)],
              sym |-> idx]

\* A slip of intern: the map is not consulted.
intern_NoLookup(in, s) ==
    LET idx == AsU32(Len(in.strings))
    IN  [interner |-> [strings |-> Append(in.strings, s),
                       map |-> MapInsert(in.map, s, idx)],
         sym |-> idx]

\* intern: the interner after the call and the Symbol returned.
intern(in, s) ==
    IF s \in DOMAIN in.map
    THEN [interner |-> in, sym |-> in.map[s]]
    ELSE LET idx == AsU32(Len(in.strings))
         IN  [interner |-> [strings |-> Append(in.strings, s),
                            map |-> MapInsert(in.map, s, idx)],
              sym |-> idx]

\* resolve: a panic (the debug assertion, or the slice index), or the string.
resolve(in, symbol) ==
    IF symbol < Len(in.strings)
    THEN [panic |-> FALSE, str |-> in.strings[symbol + 1]]
    ELSE [panic |-> TRUE, str |-> ""]

InternerInit ==
    /\ interner = Interner_new
    /\ first = <<>>
    /\ icalls = 0
    /\ iret = [op |-> "new", s |-> "", sym |-> 0, before |-> Interner_new]
    /\ seen = <<>>

Intern(s) ==
    /\ icalls < MaxInternCalls
    /\ LET r == intern(interner, s)
       IN  /\ interner' = r.interner
           /\ iret' = [op |-> "intern", s |-> s, sym |-> r.sym,
                       before |-> interner]
           /\ first' = IF s \in DOMAIN first THEN first
                       ELSE MapInsert(first, s, r.sym)
    /\ seen' = IF \E i \in DOMAIN seen : seen[i] = s THEN seen
               ELSE Append(seen, s)
    /\ icalls' = icalls + 1
    /\ UNCHANGED <<arenaVars, lexerVars, ctxVars>>

InternerNext == \E s \in Strs : Intern(s)

(***************************************************************************)
(* Lexer: characters, the cursor and the sub-scans.  A character is a      *)
(* one-character string; the input is a sequence of characters; a cursor   *)
(* lx = [chars, pos] is the iterator position (characters consumed) and    *)
(* the byte offset self.pos.                                               *)
(***************************************************************************)
Digit == {"0", "1", "2", "3", "4", "5", "6", "7", "8", "9"}
Lower == {"a", "b", "c", "d", "e", "f", "g", "h", "i", "j", "k", "l", "m",
          "n", "o", "p", "q", "r", "s", "t", "u", "v", "w", "x", "y", "z"}
Upper == {"A", "B", "C", "D", "E", "F", "G", "H", "I", "J", "K", "L", "M",
          "N", "O", "P", "Q", "R", "S", "T", "U", "V", "W", "X", "Y", "Z"}
\* U+1680, a White_Space character of three bytes.
WideBlank == " "

TwoByteChars == {"é"}
ThreeByteChars == {"€", WideBlank}

\* char::len_utf8
len_utf8(c) ==
    IF c \in TwoByteChars THEN 2 ELSE IF c \in ThreeByteChars THEN 3 ELSE 1

\* char::is_whitespace, on the characters the model draws from: the ASCII
\* blanks and U+1680, a White_Space character of three bytes.
is_whitespace(c) == c \in {" ", "\t", "\n", "\r", WideBlank}

\* Option<char>
None == [some |-> FALSE, c |-> ""]
Some(c) == [some |-> TRUE, c |-> c]

\* The byte index CharIndices gives the character after the first n.
RECURSIVE ByteIdx(_, _)
ByteIdx(in, n) ==
    IF n = 0 THEN 0 ELSE ByteIdx(in, n - 1) + len_utf8(in[n])

Lexer_new == [chars |-> 0, pos |-> 0]

\* A slip of advance: the position counts characters, not bytes.
advance_CountChars(in, lx) ==
    IF lx.chars < Len(in)
    THEN [some |-> TRUE, c |-> in[lx.chars + 1],
          lx |-> [chars |-> lx.chars + 1, pos |-> AsU32(lx.chars + 1)]]
    ELSE [some |-> FALSE, c |-> "", lx |-> lx]

\* A slip of advance: at the end of the input the position still moves.
advance_EndMoves(in, lx) ==
    IF lx.chars < Len(in)
    THEN LET c == in[lx.chars + 1]
         IN  [some |-> TRUE, c |-> c,
              lx |-> [chars |-> lx.chars + 1,
                      pos |-> AsU32(ByteIdx(in, lx.chars) + len_utf8(c))]]
    ELSE [some |-> FALSE, c |-> "",
          lx |-> [chars |-> lx.chars, pos |-> AsU32(lx.pos + 1)]]

\* advance: the character taken, if any, and the cursor after it.
advance(in, lx) ==
    IF lx.chars < Len(in)
    THEN LET c == in[lx.chars + 1]
         IN  [some |-> TRUE, c |-> c,
              lx |-> [chars |-> lx.chars + 1,
                      pos |-> AsU32(ByteIdx(in, lx.chars) + len_utf8(c))]]
    ELSE [some |-> FALSE, c |-> "", lx |-> lx]

\* A slip of peek: it looks one character too far.
peek_TooFar(in, lx) ==
    IF lx.chars + 1 < Len(in) THEN Some(in[lx.chars + 2]) ELSE None

peek(in, lx) ==
    IF lx.chars < Len(in) THEN Some(in[lx.chars + 1]) ELSE None

\* A slip of peek_next: the cloned iterator is not stepped.
peek_next_NoStep(in, lx) ==
    IF lx.chars < Len(in) THEN Some(in[lx.chars + 1]) ELSE None

peek_next(in, lx) ==
    IF lx.chars < Len(in)
    THEN IF lx.chars + 1 < Len(in) THEN Some(in[lx.chars + 2]) ELSE None
    ELSE None

\* The outcome of a scan: a panic message or a token kind, and the cursor.
Scanned(kind, lx) == [panic |-> "", kind |-> kind, lx |-> lx]
Panicked(msg, lx) == [panic |-> msg, kind |-> [tag |-> "None"], lx |-> lx]

\* A slip of consume: the character taken is not compared.
consume_NoCheck(in, lx, expected_char) ==
    LET a == advance(in, lx)
    IN  IF a.some
        THEN [panic |-> "", lx |-> a.lx]
        ELSE [panic |-> "Unexpected end of input", lx |-> a.lx]

\* consume: the panic message ("" for none) and the cursor after it.
consume(in, lx, expected_char) ==
    LET a == advance(in, lx)
    IN  IF a.some
        THEN [panic |-> IF a.c # expected_char THEN "Expected char" ELSE "",
              lx |-> a.lx]
        ELSE [panic |-> "Unexpected end of input", lx |-> a.lx]

\* A slip of skip_whitespace: an `if` for the `while`.
skip_whitespace_One(in, lx) ==
    LET p == peek(in, lx)
    IN  IF p.some /\ is_whitespace(p.c) THEN advance(in, lx).lx ELSE lx

RECURSIVE skip_whitespace(_, _)
skip_whitespace(in, lx) ==
    LET p == peek(in, lx)
    IN  IF p.some /\ is_whitespace(p.c)
        THEN skip_whitespace(in, advance(in, lx).lx)
        ELSE lx

(***************************************************************************)
(* Numbers.  The model checker's integers are 32-bit, so an i64 or f64     *)
(* value is held as a numeral: its decimal digits, most significant first, *)
(* without leading zeros (<<0>> for zero).  A float is [mant, scale],      *)
(* meaning mant / 10^scale with no trailing zero in the fraction; the      *)
(* rounding of f64 is not modelled.                                        *)
(***************************************************************************)
DigitValue(c) ==
    CASE c = "0" -> 0 [] c = "1" -> 1 [] c = "2" -> 2 [] c = "3" -> 3
      [] c = "4" -> 4 [] c = "5" -> 5 [] c = "6" -> 6 [] c = "7" -> 7
      [] c = "8" -> 8 [] c = "9" -> 9

RECURSIVE StripLeadingZeros(_)
StripLeadingZeros(ds) ==
    IF Len(ds) > 1 /\ ds[1] = 0 THEN StripLeadingZeros(Tail(ds)) ELSE ds

RECURSIVE StripTrailingZeros(_)
StripTrailingZeros(ds) ==
    IF Len(ds) > 0 /\ ds[Len(ds)] = 0
    THEN StripTrailingZeros(SubSeq(ds, 1, Len(ds) - 1))
    ELSE ds

Numeral(text) == StripLeadingZeros([i \in 1..Len(text) |-> DigitValue(text[i])])

\* i64::MAX = 9223372036854775807
I64Max == <<9, 2, 2, 3, 3, 7, 2, 0, 3, 6, 8, 5, 4, 7, 7, 5, 8, 0, 7>>

\* m > n, for numerals.
NumeralGreater(m, n) ==
    \/ Len(m) > Len(n)
    \/ /\ Len(m) = Len(n)
       /\ \E i \in 1..Len(m) :
            /\ m[i] > n[i]
            /\ \A j \in 1..(i - 1) : m[j] = n[j]

\* A slip of the integer parse: a value above i64::MAX saturates.
ParseI64_Saturating(text) ==
    IF \E i \in 1..Len(text) : text[i] \notin Digit
    THEN [err |-> TRUE, value |-> <<0>>]
    ELSE LET n == Numeral(text)
         IN  [err |-> FALSE,
              value |-> IF NumeralGreater(n, I64Max) THEN I64Max ELSE n]

\* number.parse::<i64>(): an error on a character that is no digit and on
\* a value above i64::MAX.
ParseI64(text) ==
    IF \E i \in 1..Len(text) : text[i] \notin Digit
    THEN [err |-> TRUE, value |-> <<0>>]
    ELSE LET n == Numeral(text)
         IN  IF NumeralGreater(n, I64Max)
             THEN [err |-> TRUE, value |-> <<0>>]
             ELSE [err |-> FALSE, value |-> n]

\* number.parse::<f64>(): an error unless the text is digits '.' digits.
ParseF64(text) ==
    LET dots == {i \in 1..Len(text) : text[i] = "."}
    IN  IF \/ Cardinality(dots) # 1
           \/ \E i \in 1..Len(text) : text[i] \notin Digit \cup {"."}
        THEN [err |-> TRUE, value |-> [mant |-> <<0>>, scale |-> 0]]
        ELSE LET dot == CHOOSE i \in dots : TRUE
                 whole == [i \in 1..(dot - 1) |-> DigitValue(text[i])]
                 frac == StripTrailingZeros(
                             [i \in 1..(Len(text) - dot) |->
                                  DigitValue(text[dot + i])])
             IN  [err |-> FALSE,
                  value |-> [mant |-> StripLeadingZeros(whole \o frac),
                             scale |-> Len(frac)]]

\* A slip of the scan loop: the '_' separator is kept in the text.
RECURSIVE parse_number_loop_KeepUnderscore(_, _, _, _)
parse_number_loop_KeepUnderscore(in, lx, number, is_float) ==
    LET p == peek(in, lx)
        done == [lx |-> lx, number |-> number, is_float |-> is_float]
    IN  IF ~p.some THEN done
        ELSE IF p.c \in Digit \cup {"_"}
        THEN parse_number_loop_KeepUnderscore(in, advance(in, lx).lx,
                                              Append(number, p.c), is_float)
        ELSE IF p.c = "." /\ ~is_float
        THEN LET n == peek_next(in, lx)
             IN  IF n.some /\ n.c \in Digit
                 THEN parse_number_loop_KeepUnderscore(
                          in, advance(in, advance(in, lx).lx).lx,
                          number \o <<p.c, n.c>>, TRUE)
                 ELSE done
        ELSE done

\* The while loop of parse_number.
RECURSIVE parse_number_loop(_, _, _, _)
parse_number_loop(in, lx, number, is_float) ==
    LET p == peek(in, lx)
        done == [lx |-> lx, number |-> number, is_float |-> is_float]
    IN  IF ~p.some THEN done
        ELSE IF p.c \in Digit
        THEN parse_number_loop(in, advance(in, lx).lx,
                               Append(number, p.c), is_float)
        ELSE IF p.c = "_"
        THEN parse_number_loop(in, advance(in, lx).lx, number, is_float)
        ELSE IF p.c = "."
        THEN IF is_float
             THEN done
             ELSE LET ch == peek_next(in, lx)
                  IN  IF ch.some
                      THEN IF ch.c \in Digit
                           THEN parse_number_loop(
                                    in, advance(in, advance(in, lx).lx).lx,
                                    number \o <<p.c, ch.c>>, TRUE)
                           ELSE done
                      ELSE done
        ELSE done

parse_number(in, lx, c) ==
    LET l == parse_number_loop(in, lx, <<c>>, FALSE)
    IN  IF l.is_float
        THEN LET f == ParseF64(l.number)
             IN  IF f.err
                 THEN Panicked("Invalid float literal", l.lx)
                 ELSE Scanned([tag |-> "FloatLit", value |-> f.value], l.lx)
        ELSE LET i == ParseI64(l.number)
             IN  IF i.err
                 THEN Panicked("Invalid integer literal", l.lx)
                 ELSE Scanned([tag |-> "IntegerLit", value |-> i.value], l.lx)

(***************************************************************************)
(* Identifiers, keywords and string literals.  The text a token carries    *)
(* is a string, grown one character at a time as String::push does.        *)
(***************************************************************************)
\* A slip of the scan loop: a digit ends the word.
RECURSIVE parse_ident_loop_NoDigits(_, _, _)
parse_ident_loop_NoDigits(in, lx, ident) ==
    LET p == peek(in, lx)
    IN  IF p.some /\ p.c \in Upper \cup Lower \cup {"_"}
        THEN parse_ident_loop_NoDigits(in, advance(in, lx).lx, ident \o p.c)
        ELSE [lx |-> lx, ident |-> ident]

RECURSIVE parse_ident_loop(_, _, _)
parse_ident_loop(in, lx, ident) ==
    LET p == peek(in, lx)
    IN  IF p.some /\ p.c \in Digit \cup Upper \cup Lower \cup {"_"}
        THEN parse_ident_loop(in, advance(in, lx).lx, ident \o p.c)
        ELSE [lx |-> lx, ident |-> ident]

parse_ident(in, lx, c) ==
    LET l == parse_ident_loop(in, lx, c)
        ident == l.ident
        kind ==
            CASE ident = "fn" -> [tag |-> "Fn"]
              [] ident = "struct" -> [tag |-> "Struct"]
              [] ident = "enum" -> [tag |-> "Enum"]
              [] ident = "union" -> [tag |-> "Union"]
              [] ident = "impl" -> [tag |-> "Impl"]
              [] ident = "const" -> [tag |-> "Const"]
              [] ident = "extern" -> [tag |-> "Extern"]
              [] ident = "val" -> [tag |-> "Val"]
              [] ident = "var" -> [tag |-> "Var"]
              [] ident = "defer" -> [tag |-> "Defer"]
              [] ident = "while" -> [tag |-> "While"]
              [] ident = "for" -> [tag |-> "For"]
              [] ident = "in" -> [tag |-> "In"]
              [] ident = "loop" -> [tag |-> "Loop"]
              [] ident = "if" -> [tag |-> "If"]
              [] ident = "else" -> [tag |-> "Else"]
              [] ident = "match" -> [tag |-> "Match"]
              [] ident = "break" -> [tag |-> "Break"]
              [] ident = "return" -> [tag |-> "Return"]
              [] ident = "void" -> [tag |-> "Void"]
              [] ident = "undefined" -> [tag |-> "Undefined"]
              [] ident = "true" -> [tag |-> "BoolLit", value |-> TRUE]
              [] ident = "false" -> [tag |-> "BoolLit", value |-> FALSE]
              [] ident = "null" -> [tag |-> "Null"]
              [] OTHER -> [tag |-> "Ident", text |-> ident]
    IN  Scanned(kind, l.lx)

\* A slip of parse_string: the arm for an escaped double quote is missing.
RECURSIVE parse_string_loop_NoQuoteArm(_, _, _)
parse_string_loop_NoQuoteArm(in, lx, string) ==
    LET a == advance(in, lx)
    IN  IF ~a.some
        THEN Panicked("Unterminated string literal", a.lx)
        ELSE IF a.c = "\\"
        THEN LET n == advance(in, a.lx)
             IN  IF n.some
                 THEN parse_string_loop_NoQuoteArm(in, n.lx,
                          CASE n.c = "n" -> string \o "\n"
                            [] n.c = "t" -> string \o "\t"
                            [] n.c = "r" -> string \o "\r"
                            [] n.c = "\\" -> string \o "\\"
                            [] OTHER -> (string \o "\\") \o n.c)
                 ELSE Panicked("Unterminated string literal", n.lx)
        ELSE IF a.c = "\""
        THEN Scanned([tag |-> "StringLit", text |-> string], a.lx)
        ELSE parse_string_loop_NoQuoteArm(in, a.lx, string \o a.c)

\* A slip of parse_string: the end of the input closes the literal.
RECURSIVE parse_string_loop_EofCloses(_, _, _)
parse_string_loop_EofCloses(in, lx, string) ==
    LET a == advance(in, lx)
    IN  IF ~a.some
        THEN Scanned([tag |-> "StringLit", text |-> string], a.lx)
        ELSE IF a.c = "\\"
        THEN LET n == advance(in, a.lx)
             IN  IF n.some
                 THEN parse_string_loop_EofCloses(in, n.lx,
                          CASE n.c = "n" -> string \o "\n"
                            [] n.c = "t" -> string \o "\t"
                            [] n.c = "r" -> string \o "\r"
                            [] n.c = "\"" -> string \o "\""
                            [] n.c = "\\" -> string \o "\\"
                            [] OTHER -> (string \o "\\") \o n.c)
                 ELSE Panicked("Unterminated string literal", n.lx)
        ELSE IF a.c = "\""
        THEN Scanned([tag |-> "StringLit", text |-> string], a.lx)
        ELSE parse_string_loop_EofCloses(in, a.lx, string \o a.c)

RECURSIVE parse_string_loop(_, _, _)
parse_string_loop(in, lx, string) ==
    LET a == advance(in, lx)
    IN  IF ~a.some
        THEN Panicked("Unterminated string literal", a.lx)   \* !closed
        ELSE IF a.c = "\\"
        THEN LET n == advance(in, a.lx)
             IN  IF n.some
                 THEN parse_string_loop(in, n.lx,
                          CASE n.c = "n" -> string \o "\n"
                            [] n.c = "t" -> string \o "\t"
                            [] n.c = "r" -> string \o "\r"
                            [] n.c = "\"" -> string \o "\""
                            [] n.c = "\\" -> string \o "\\"
                            [] OTHER -> (string \o "\\") \o n.c)
                 ELSE Panicked("Unterminated string literal", n.lx)
        ELSE IF a.c = "\""
        THEN Scanned([tag |-> "StringLit", text |-> string], a.lx)
        ELSE parse_string_loop(in, a.lx, string \o a.c)

parse_string(in, lx) == parse_string_loop(in, lx, "")

(***************************************************************************)
(* next_token                                                              *)
(***************************************************************************)
Span_new(start, end) == [start |-> start, end |-> end]

\* if let Some(x) = self.peek() { self.advance(); long } else { short }
Lookahead1(in, lx, x, long, short) ==
    IF peek(in, lx) = Some(x)
    THEN Scanned([tag |-> long], advance(in, lx).lx)
    ELSE Scanned([tag |-> short], lx)

\* if let Some(n) = self.peek() { match n { x => .., y => .., _ => short } }
\* else { short }
Lookahead2(in, lx, x, longx, y, longy, short) ==
    LET n == peek(in, lx)
    IN  IF n.some
        THEN CASE n.c = x -> Scanned([tag |-> longx], advance(in, lx).lx)
               [] n.c = y -> Scanned([tag |-> longy], advance(in, lx).lx)
               [] OTHER -> Scanned([tag |-> short], lx)
        ELSE Scanned([tag |-> short], lx)

\* The arm of a single quote.
char_literal(in, lx) ==
    LET a == advance(in, lx)
    IN  IF a.some
        THEN LET k == consume(in, a.lx, "'")
             IN  IF k.panic # ""
                 THEN Panicked(k.panic, k.lx)
                 ELSE Scanned([tag |-> "Char", value |-> a.c], k.lx)
        ELSE Panicked("Unterminated char literal", a.lx)

\* match c { ... }: the kind of the token that starts with c.
token_kind(in, lx, c) ==
    CASE c = "(" -> Scanned([tag |-> "LParen"], lx)
      [] c = ")" -> Scanned([tag |-> "RParen"], lx)
      [] c = "{" -> Scanned([tag |-> "LBrace"], lx)
      [] c = "}" -> Scanned([tag |-> "RBrace"], lx)
      [] c = "[" -> Scanned([tag |-> "LBracket"], lx)
      [] c = "]" -> Scanned([tag |-> "RBracket"], lx)
      [] c = "," -> Scanned([tag |-> "Comma"], lx)
      [] c = "." -> Scanned([tag |-> "Dot"], lx)
      [] c = ":" -> Scanned([tag |-> "Colon"], lx)
      [] c = ";" -> Scanned([tag |-> "Semicolon"], lx)
      [] c = "?" -> Scanned([tag |-> "Question"], lx)
      [] c = "+" -> Lookahead1(in, lx, "=", "PlusAssign", "Plus")
      [] c = "-" -> Lookahead2(in, lx, "=", "MinusAssign", ">", "Arrow", "Minus")
      [] c = "*" -> Lookahead1(in, lx, "=", "StarAssign", "Star")
      [] c = "/" -> Lookahead1(in, lx, "=", "SlashAssign", "Slash")
      [] c = "%" -> Scanned([tag |-> "Percent"], lx)
      [] c = "!" -> Lookahead1(in, lx, "=", "NotEq", "Bang")
      [] c = "@" -> Scanned([tag |-> "At"], lx)
      [] c = "|" -> Lookahead2(in, lx, "|", "OrOr", ">", "PipeGreater", "BitOr")
      [] c = "&" -> Lookahead1(in, lx, "&", "AndAnd", "Ampersand")
      [] c = "^" -> Scanned([tag |-> "BitXor"], lx)
      [] c = ">" -> Lookahead2(in, lx, "=", "GtEq", ">", "Shr", "Gt")
      [] c = "<" -> Lookahead2(in, lx, "=", "LtEq", "<", "Shl", "Lt")
      [] c = "~" -> Scanned([tag |-> "BitNot"], lx)
      [] c = "=" -> Lookahead2(in, lx, "=", "EqEq", ">", "FatArrow", "Assign")
      [] c \in Digit -> parse_number(in, lx, c)
      [] c \in Lower \cup Upper \cup {"_"} -> parse_ident(in, lx, c)
      [] c = "\"" -> parse_string(in, lx)
      [] c = "'" -> char_literal(in, lx)
      [] OTHER -> Panicked("Unknown char", lx)

\* A slip of next_token: the first character is looked at but not taken.
next_token_Peeked(in, lx0) ==
    LET lx1 == skip_whitespace(in, lx0)
        start == lx1.pos
        a == peek(in, lx1)
    IN  IF ~a.some
        THEN [panic |-> "",
              tok |-> [kind |-> [tag |-> "Eof"], span |-> Span_new(start, start)],
              lx |-> lx1]
        ELSE LET r == token_kind(in, lx1, a.c)
             IN  [panic |-> r.panic,
                  tok |-> [kind |-> r.kind, span |-> Span_new(start, r.lx.pos)],
                  lx |-> r.lx]

\* next_token: a panic message or the token, and the cursor after the call.
next_token(in, lx0) ==
    LET lx1 == skip_whitespace(in, lx0)
        start == lx1.pos
        a == advance(in, lx1)
    IN  IF ~a.some
        THEN [panic |-> "",
              tok |-> [kind |-> [tag |-> "Eof"], span |-> Span_new(start, start)],
              lx |-> a.lx]
        ELSE LET r == token_kind(in, a.lx, a.c)
             IN  [panic |-> r.panic,
                  tok |-> [kind |-> r.kind, span |-> Span_new(start, r.lx.pos)],
                  lx |-> r.lx]

(***************************************************************************)
(* The loop that pulls tokens (main.rs), over a set of inputs.             *)
(***************************************************************************)
\* Every character sequence over alphabet of at most n characters.
Texts(alphabet, n) == UNION {[1..k -> alphabet] : k \in 0..n}

LexerInit(inputs) ==
    /\ input \in inputs
    /\ chars = Lexer_new.chars
    /\ pos = Lexer_new.pos
    /\ out = <<>>
    /\ calls = 0
    /\ lpanic = ""

\* One call of next_token.  The caller stops at a panic, and makes at most
\* one call more than an input of its length can need.
NextToken ==
    /\ lpanic = ""
    /\ calls <= Len(input) + 1
    /\ LET r == next_token(input, [chars |-> chars, pos |-> pos])
       IN  /\ chars' = r.lx.chars
           /\ pos' = r.lx.pos
           /\ lpanic' = r.panic
           /\ out' = IF r.panic = "" THEN Append(out, r.tok) ELSE out
    /\ calls' = calls + 1
    /\ UNCHANGED input
    /\ UNCHANGED <<arenaVars, internerVars, ctxVars>>

LexerNext == NextToken

(***************************************************************************)
(* CompilerCtx                                                             *)
(***************************************************************************)
MaxCtxCalls == 3

DiagnosticLevel == {"Info", "Warning", "Error"}
Targets == {"x86_64", "wasm32"}
Messages == {"unused", "mismatch"}
Spans == {Span_new(0, 1), Span_new(4, 4)}
\* Arena::new takes any chunk size; the context never allocates on its own.
CtxChunkSizes == {0, MaxChunkSize}

Diagnostic(level, message, span) ==
    [level |-> level, message |-> message, span |-> span]

Ast_new(chunk_size) ==
    [exprs |-> Arena_new(chunk_size),
     stmts |-> Arena_new(chunk_size),
     type_specs |-> Arena_new(chunk_size),
     items |-> Arena_new(chunk_size),
     patterns |-> Arena_new(chunk_size)]

CompilerCtx_new(target, arena_chunk_size) ==
    [interner |-> Interner_new,
     ast |-> Ast_new(arena_chunk_size),
     diagnostics |-> <<>>,
     target |-> target,
     current_pass |-> "Init"]

\* A slip of has_errors: only the last diagnostic is looked at.
has_errors_LastOnly(c) ==
    /\ c.diagnostics # <<>>
    /\ c.diagnostics[Len(c.diagnostics)].level = "Error"

has_errors(c) ==
    \E i \in DOMAIN c.diagnostics : c.diagnostics[i].level = "Error"

\* A slip of report: nothing is recorded once an error is.
report_StopAfterError(c, level, message, span) ==
    IF has_errors(c) THEN c
    ELSE [c EXCEPT !.diagnostics = Append(@, Diagnostic(level, message, span))]

report(c, level, message, span) ==
    [c EXCEPT !.diagnostics = Append(@, Diagnostic(level, message, span))]

\* CompilerCtx::intern: the context after the call and the Symbol returned.
CompilerCtx_intern(c, s) ==
    LET r == intern(c.interner, s)
    IN  [ctx |-> [c EXCEPT !.interner = r.interner], sym |-> r.sym]

\* The last call: its name, the context before it and what it returned.
CRet(op, before, result) == [op |-> op, before |-> before, result |-> result]

CtxInit ==
    /\ \E target \in Targets, arena_chunk_size \in CtxChunkSizes :
          /\ ctx = CompilerCtx_new(target, arena_chunk_size)
          /\ cret = CRet("new", ctx, FALSE)
    /\ reported = <<>>
    /\ ccalls = 0

Report(level, message, span) ==
    /\ ccalls < MaxCtxCalls
    /\ ctx' = report(ctx, level, message, span)
    /\ reported' = Append(reported, Diagnostic(level, message, span))
    /\ cret' = CRet("report", ctx, FALSE)
    /\ ccalls' = ccalls + 1
    /\ UNCHANGED <<arenaVars, internerVars, lexerVars>>

CtxIntern(s) ==
    /\ ccalls < MaxCtxCalls
    /\ LET r == CompilerCtx_intern(ctx, s)
       IN  /\ ctx' = r.ctx
           /\ cret' = CRet("intern", ctx, r.sym)
    /\ ccalls' = ccalls + 1
    /\ UNCHANGED reported
    /\ UNCHANGED <<arenaVars, internerVars, lexerVars>>

HasErrors ==
    /\ ccalls < MaxCtxCalls
    /\ cret' = CRet("has_errors", ctx, has_errors(ctx))
    /\ ccalls' = ccalls + 1
    /\ UNCHANGED <<ctx, reported>>
    /\ UNCHANGED <<arenaVars, internerVars, lexerVars>>

CtxNext ==
    \/ \E level \in DiagnosticLevel, message \in Messages, span \in Spans :
          Report(level, message, span)
    \/ \E s \in Strs : CtxIntern(s)
    \/ HasErrors

(***************************************************************************)
(* Initial values of the components a specification does not exercise.     *)
(***************************************************************************)
ArenaIdle ==
    /\ arena = Arena_new(1)
    /\ ids = <<>>
    /\ expected = <<>>
    /\ mutated = FALSE
    /\ wild = FALSE
    /\ ret = NoRet
    /\ panicked = FALSE

InternerIdle == InternerInit

LexerIdle == LexerInit({<<>>})

CtxIdle ==
    /\ ctx = CompilerCtx_new("", 1)
    /\ cret = CRet("new", ctx, FALSE)
    /\ reported = <<>>
    /\ ccalls = 0

InitCtx == ArenaIdle /\ InternerIdle /\ LexerIdle /\ CtxInit

SpecCtx == InitCtx /\ [][CtxNext]_vars

InitArena == ArenaInit /\ InternerIdle /\ LexerIdle /\ CtxIdle

SpecArena == InitArena /\ [][ArenaNext]_vars

InitInterner == ArenaIdle /\ InternerInit /\ LexerIdle /\ CtxIdle

SpecInterner == InitInterner /\ [][InternerNext]_vars

\* Operators and their neighbours.
MaxOpLen == 3

OpAlphabet ==
    {"+", "-", "*", "/", "%", "!", "|", "&", "^", ">", "<", "=", "~", "@",
     ".", "(", " ", "a", "1"}

InitLexOps ==
    ArenaIdle /\ InternerIdle /\ CtxIdle /\ LexerInit(Texts(OpAlphabet, MaxOpLen))

SpecLexOps == InitLexOps /\ [][LexerNext]_vars

\* Numeric literals and what may follow them.
MaxNumLen == 5

NumAlphabet == {"0", "1", "_", ".", "a"}

\* The literals 6_000.9 and 8 of main.rs, and 3.foo and 1.2.3.
NumSamples ==
    {<<"3", ".", "f", "o", "o">>,
     <<"1", ".", "2", ".", "3">>,
     <<"6", "_", "0", "0", "0", ".", "9">>,
     <<"8">>}

InitLexNum ==
    ArenaIdle /\ InternerIdle /\ CtxIdle
        /\ LexerInit(Texts(NumAlphabet, MaxNumLen) \cup NumSamples)

SpecLexNum == InitLexNum /\ [][LexerNext]_vars

\* Words: every short word over a few letters, the reserved words, and the
\* reserved words with a character more in front or behind.
MaxWordLen == 3

WordAlphabet == {"i", "f", "n", "F", "_", "1", " "}

Keywords ==
    {<<"f", "n">>,
     <<"s", "t", "r", "u", "c", "t">>,
     <<"e", "n", "u", "m">>,
     <<"u", "n", "i", "o", "n">>,
     <<"i", "m", "p", "l">>,
     <<"c", "o", "n", "s", "t">>,
     <<"e", "x", "t", "e", "r", "n">>,
     <<"v", "a", "l">>,
     <<"v", "a", "r">>,
     <<"d", "e", "f", "e", "r">>,
     <<"w", "h", "i", "l", "e">>,
     <<"f", "o", "r">>,
     <<"i", "n">>,
     <<"l", "o", "o", "p">>,
     <<"i", "f">>,
     <<"e", "l", "s", "e">>,
     <<"m", "a", "t", "c", "h">>,
     <<"b", "r", "e", "a", "k">>,
     <<"r", "e", "t", "u", "r", "n">>,
     <<"v", "o", "i", "d">>,
     <<"u", "n", "d", "e", "f", "i", "n", "e", "d">>,
     <<"t", "r", "u", "e">>,
     <<"f", "a", "l", "s", "e">>,
     <<"n", "u", "l", "l">>}

OtherWords ==
    {<<"F", "n">>,
     <<"I", "F">>,
     <<"T", "r", "u", "e">>,
     <<"N", "U", "L", "L">>,
     <<"V", "o", "i", "d">>,
     <<"f", "N">>,
     <<"i", "f", "f">>,
     <<"i", "n", "n">>,
     <<"v", "a", "l", "s">>,
     <<"f", "n", "n">>,
     <<"n", "u", "l">>,
     <<"t", "r", "u">>,
     <<"u", "n", "d", "e", "f", "i", "n", "e">>,
     <<"r", "e", "t", "u", "r", "n", "s">>,
     <<"f", "n", "(">>,
     <<"i", "f", " ", "i", "f">>,
     <<"i", "n", "_">>,
     <<"f", "n", " ", "f", "n", "x">>,
     <<"v", "a", "l", " ", "a">>}

Words ==
    Keywords \cup OtherWords
        \cup {<<c>> \o k : c \in {"_", "x", "X"}, k \in Keywords}
        \cup {k \o <<c>> : c \in {"_", "x", "1"}, k \in Keywords}

InitLexWord ==
    ArenaIdle /\ InternerIdle /\ CtxIdle
        /\ LexerInit(Texts(WordAlphabet, MaxWordLen) \cup Words)

SpecLexWord == InitLexWord /\ [][LexerNext]_vars

\* Free text: blanks of one and of three bytes, a two-byte character that
\* starts no token, a letter, the two quotes, the backslash and an operator.
MaxTextLen == 4

TextAlphabet == {" ", WideBlank, "é", "a", "\"", "'", "\\", "+"}

InitLexText ==
    ArenaIdle /\ InternerIdle /\ CtxIdle
        /\ LexerInit(Texts(TextAlphabet, MaxTextLen))

SpecLexText == InitLexText /\ [][LexerNext]_vars

\* String literals: an opening quote, then every body over the quote, the
\* backslash, two escape letters and a plain letter; and some longer texts.
MaxStrLen == 5

StrAlphabet == {"\"", "\\", "n", "t", "a"}

StrSamples ==
    { <<"\"", "a", "\\", "n", "b", "\"">>,
      <<"\"", "\\", "r", "\\", "é", "\"">>,
      <<"\"", "é", "\\", "'", "\"", "\"", "\"">>,
      <<" ", "\"", "\\", "\"", "\"", "+", "\"", "\\", "\\", "\"", "a">>,
      <<"a", "\"", "\\", "\\", "\\", "\"", "\"", "\"", "\\">> }

InitLexStr ==
    /\ ArenaIdle
    /\ InternerIdle
    /\ CtxIdle
    /\ LexerInit({<<"\"">> \o body : body \in Texts(StrAlphabet, MaxStrLen)}
                   \cup StrSamples)

SpecLexStr == InitLexStr /\ [][LexerNext]_vars

\* One character of every class next_token tells apart: whitespace of one
\* and of three bytes, a letter, a digit, '.', '_', two operator characters,
\* the two quotes, and two characters that start no token.
MaxAnyLen == 3

AnyAlphabet ==
    {" ", WideBlank, "a", "1", ".", "_", "+", "=", "\"", "'", "\\", "é"}

InitLexAny ==
    ArenaIdle /\ InternerIdle /\ CtxIdle
        /\ LexerInit(Texts(AnyAlphabet, MaxAnyLen))

SpecLexAny == InitLexAny /\ [][LexerNext]_vars

\* Integers around i64::MAX: the first 18 digits of 9223372036854775807,
\* behind nothing, zeros, a separator or one more digit, and before every
\* tail of digits, separators and blanks.
MaxTailLen == 2

I64MaxHead ==
    <<"9", "2", "2", "3", "3", "7", "2", "0", "3", "6", "8", "5", "4", "7",
      "7", "5", "8", "0">>

BigLeads == {<<>>, <<"0">>, <<"0", "_", "0">>, <<"1">>}

BigTailAlphabet == {"0", "6", "7", "8", "_", " "}

InitLexBig ==
    /\ ArenaIdle
    /\ InternerIdle
    /\ CtxIdle
    /\ LexerInit({(lead \o I64MaxHead) \o tail :
                    lead \in BigLeads,
                    tail \in Texts(BigTailAlphabet, MaxTailLen)})

SpecLexBig == InitLexBig /\ [][LexerNext]_vars

(***************************************************************************)
(* Arena: the claims                                                       *)
(***************************************************************************)
\* The element a handle resolves to: a panic, or the value read.
Read(a, id) ==
    LET p == get(a, id)
    IN  [panic |-> p.panic, val |-> IF p.panic THEN "" ELSE Deref(a, p)]

\* C1: with chunk_size >= 1 and no get_mut so far, get of every handle an
\* alloc call returned yields the item passed to that call, right after
\* the call and after all later alloc calls (sealing included).
C1_GetReturnsAllocated ==
    (arena.chunk_size >= 1 /\ ~mutated) =>
        \A i \in 1..Len(ids) :
            Read(arena, ids[i]) = [panic |-> FALSE, val |-> expected[i]]

\* A handle of a sealed chunk is read back after a later chunk was started.
C1_Witness ==
    /\ ~mutated
    /\ arena.chunk_size >= 2
    /\ Len(arena.chunks) >= 1
    /\ Len(arena.chunk) >= 1
    /\ ret.op = "get" /\ ret.id = 0 /\ ~ret.panic /\ ret.val = expected[1]

\* C2: with chunk_size >= 1, after n alloc calls len() is n, is_empty() is
\* true exactly when n = 0, and iter_ids() yields 0, 1, ..., n-1 in order.
C2_LenAndIterIds ==
    arena.chunk_size >= 1 =>
        /\ len(arena) = Len(ids)
        /\ is_empty(arena) <=> (Len(ids) = 0)
        /\ iter_ids(arena) = [i \in 1..Len(ids) |-> i - 1]

C2_Witness ==
    /\ arena.chunk_size >= 2
    /\ Len(ids) >= 3
    /\ Len(arena.chunks) >= 1
    /\ Len(arena.chunk) >= 1

\* C3: every alloc returns the handle whose index is the len() before the
\* call, so the handles of successive alloc calls on one Arena are
\* 0, 1, 2, ... and no two calls return the same handle.
C3_HandlesCountUp ==
    /\ ret.op = "alloc" => index(ret.id) = ret.pre_len
    /\ \A i \in 1..Len(ids) : index(ids[i]) = i - 1
    /\ \A i, j \in 1..Len(ids) : i # j => ids[i] # ids[j]

\* C4: get and get_mut with a handle whose index is >= len() panic.
C4_OutOfRangePanics ==
    (ret.op \in {"get", "get_mut"} /\ index(ret.id) >= ret.pre_len) => ret.panic

\* C5: Arena::new(0) fails at construction, so no Arena with chunk_size 0
\* ever receives a call.
C5_NewZeroFailsFast ==
    arena.chunk_size = 0 => ret.op = "new"

\* C6: a write through get_mut(id) with id < len() is what every later get(id)
\* returns, and it changes neither len(), nor iter_ids(), nor what get
\* returns for any other valid handle (sealed chunk or current chunk).
\* The first conjunct follows the written values through later calls, as
\* long as no get_mut call got a reference for an id >= len(); the second
\* compares the arena before and after each write.
C6_GetMutWritesOneElement ==
    /\ ~wild =>
          \A i \in 0..(len(arena) - 1) :
              Read(arena, NodeId_new(i)) =
                  [panic |-> FALSE, val |-> expected[i + 1]]
    /\ (ret.op = "get_mut" /\ ~ret.panic /\ index(ret.id) < ret.pre_len) =>
          /\ len(arena) = ret.pre_len
          /\ iter_ids(arena) = iter_ids(ret.before)
          /\ Read(arena, ret.id) = [panic |-> FALSE, val |-> ret.item]
          /\ \A j \in 0..(ret.pre_len - 1) :
                j # index(ret.id) =>
                    Read(arena, NodeId_new(j)) = Read(ret.before, NodeId_new(j))

\* An element of a sealed chunk is overwritten while the current chunk
\* holds elements too.
C6_Witness ==
    /\ ~wild
    /\ Len(arena.chunks) >= 1
    /\ Len(arena.chunk) >= 1
    /\ ret.op = "get_mut" /\ ~ret.panic /\ ret.id = 0
    /\ ret.item # expected[2]

(***************************************************************************)
(* Interner: the claims                                                    *)
(***************************************************************************)
\* C7: every intern call for a string returns the Symbol its first call
\* returned, and resolve of that Symbol is the string, whatever else was
\* interned before, between or after.
C7_InternIdempotent ==
    /\ iret.op = "intern" => iret.sym = first[iret.s]
    /\ \A s \in DOMAIN first :
          /\ resolve(interner, first[s]) = [panic |-> FALSE, str |-> s]
          /\ intern(interner, s).sym = first[s]

\* A string is interned again after another string was interned.
C7_Witness ==
    /\ iret.op = "intern"
    /\ icalls >= 3
    /\ Len(interner.strings) = 2
    /\ iret.sym = 0

(***************************************************************************)
(* Lexer: the claims.  The inputs of SpecLexOps and SpecLexNum are ASCII,  *)
(* so a byte offset of a span is also a count of characters.               *)
(***************************************************************************)
OpFirst ==
    {"+", "-", "*", "/", "%", "!", "|", "&", "^", ">", "<", "=", "~", "@"}

\* The two-character operators, "" for a pair that is none.
C8_Long(c, d) ==
    CASE c = "+" /\ d = "=" -> "PlusAssign"
      [] c = "-" /\ d = "=" -> "MinusAssign"
      [] c = "-" /\ d = ">" -> "Arrow"
      [] c = "*" /\ d = "=" -> "StarAssign"
      [] c = "/" /\ d = "=" -> "SlashAssign"
      [] c = "!" /\ d = "=" -> "NotEq"
      [] c = "|" /\ d = "|" -> "OrOr"
      [] c = "|" /\ d = ">" -> "PipeGreater"
      [] c = "&" /\ d = "&" -> "AndAnd"
      [] c = ">" /\ d = "=" -> "GtEq"
      [] c = ">" /\ d = ">" -> "Shr"
      [] c = "<" /\ d = "=" -> "LtEq"
      [] c = "<" /\ d = "<" -> "Shl"
      [] c = "=" /\ d = "=" -> "EqEq"
      [] c = "=" /\ d = ">" -> "FatArrow"
      [] OTHER -> ""

\* The one-character operators.
C8_Short(c) ==
    CASE c = "+" -> "Plus" [] c = "-" -> "Minus" [] c = "*" -> "Star"
      [] c = "/" -> "Slash" [] c = "%" -> "Percent" [] c = "!" -> "Bang"
      [] c = "|" -> "BitOr" [] c = "&" -> "Ampersand" [] c = "^" -> "BitXor"
      [] c = ">" -> "Gt" [] c = "<" -> "Lt" [] c = "=" -> "Assign"
      [] c = "~" -> "BitNot" [] c = "@" -> "At"

\* C8: a token that starts with an operator character c is the
\* two-character operator when c and the next character d form one of
\* += -= -> *= /= != || |> && >= >> <= << == =>, and otherwise the
\* one-character operator of c, with d left as the start of the next token
\* (also when c ends the input).
C8_OperatorLookahead ==
    /\ lpanic = ""
    /\ \A i \in 1..Len(out) :
         LET s == out[i].span.start
             e == out[i].span.end
         IN  (s < Len(input) /\ input[s + 1] \in OpFirst) =>
               LET c == input[s + 1]
                   long == IF s + 1 < Len(input)
                           THEN C8_Long(c, input[s + 2]) ELSE ""
               IN  /\ IF long # ""
                      THEN out[i].kind = [tag |-> long] /\ e = s + 2
                      ELSE out[i].kind = [tag |-> C8_Short(c)] /\ e = s + 1
                   /\ i = Len(out) => chars = e /\ pos = e
                   /\ (i < Len(out) /\ e < Len(input)
                          /\ ~is_whitespace(input[e + 1])) =>
                        out[i + 1].span.start = e

\* "->-" gave Arrow, then Minus at the end of the input, then Eof.
C8_Witness ==
    /\ input = <<"-", ">", "-">>
    /\ Len(out) = 3
    /\ out[1].kind.tag = "Arrow"
    /\ out[2].kind.tag = "Minus"
    /\ out[3].kind.tag = "Eof"

IsNumber(tok) == tok.kind.tag \in {"IntegerLit", "FloatLit"}

\* The positions of the '.' characters of input inside the span [s, e).
DotsIn(s, e) == {p \in (s + 1)..e : input[p] = "."}

\* C9: in a numeric literal a '.' is consumed iff no decimal point was
\* accepted yet and the next character is a digit; a '.' that is not
\* consumed is the Dot token of the next call.  "3.foo" is IntegerLit(3),
\* Dot, Ident(foo); "1.2.3" is FloatLit(1.2), Dot, IntegerLit(3).
C9_DotOrDecimalPoint ==
    /\ \A i \in 1..Len(out) :
         IsNumber(out[i]) =>
           LET s == out[i].span.start
               e == out[i].span.end
           IN  /\ Cardinality(DotsIn(s, e)) <= 1
               /\ \A p \in DotsIn(s, e) : p < e /\ input[p + 1] \in Digit
               /\ (e < Len(input) /\ input[e + 1] = ".") =>
                    /\ \/ DotsIn(s, e) # {}
                       \/ e + 1 = Len(input)
                       \/ input[e + 2] \notin Digit
                    /\ i < Len(out) =>
                         out[i + 1] = [kind |-> [tag |-> "Dot"],
                                       span |-> [start |-> e, end |-> e + 1]]
    /\ (input = <<"3", ".", "f", "o", "o">> /\ calls >= 3) =>
         /\ Len(out) >= 3
         /\ out[1].kind = [tag |-> "IntegerLit", value |-> <<3>>]
         /\ out[2].kind = [tag |-> "Dot"]
         /\ out[3].kind = [tag |-> "Ident", text |-> "foo"]
    /\ (input = <<"1", ".", "2", ".", "3">> /\ calls >= 3) =>
         /\ Len(out) >= 3
         /\ out[1].kind = [tag |-> "FloatLit",
                           value |-> [mant |-> <<1, 2>>, scale |-> 1]]
         /\ out[2].kind = [tag |-> "Dot"]
         /\ out[3].kind = [tag |-> "IntegerLit", value |-> <<3>>]

\* "1.2.3": the second '.' was left and came back as Dot.
C9_Witness ==
    /\ input = <<"1", ".", "2", ".", "3">>
    /\ Len(out) = 3
    /\ out[2].kind.tag = "Dot"

NotUnderscore(c) == c # "_"

\* C10: a numeric token carries the value of its scanned characters with
\* every '_' removed, and is FloatLit iff a '.' was scanned, else
\* IntegerLit; a '_' never ends the literal.  "6_000.9" is the float
\* 6000.9 and "8" is IntegerLit(8).
C10_NumberValue ==
    /\ \A i \in 1..Len(out) :
         IsNumber(out[i]) =>
           LET s == out[i].span.start
               e == out[i].span.end
               text == SelectSeq(SubSeq(input, s + 1, e), NotUnderscore)
           IN  /\ out[i].kind =
                    IF DotsIn(s, e) # {}
                    THEN [tag |-> "FloatLit", value |-> ParseF64(text).value]
                    ELSE [tag |-> "IntegerLit", value |-> ParseI64(text).value]
               /\ e < Len(input) => input[e + 1] \notin Digit \cup {"_"}
    /\ (input = <<"6", "_", "0", "0", "0", ".", "9">> /\ calls >= 1) =>
         /\ Len(out) >= 1
         /\ out[1] = [kind |-> [tag |-> "FloatLit",
                                value |-> [mant |-> <<6, 0, 0, 0, 9>>,
                                           scale |-> 1]],
                      span |-> [start |-> 0, end |-> 7]]
    /\ (input = <<"8">> /\ calls >= 1) =>
         /\ Len(out) >= 1
         /\ out[1] = [kind |-> [tag |-> "IntegerLit", value |-> <<8>>],
                      span |-> [start |-> 0, end |-> 1]]

\* "6_000.9" was lexed to its float token.
C10_Witness ==
    /\ input = <<"6", "_", "0", "0", "0", ".", "9">>
    /\ Len(out) >= 1
    /\ out[1].kind.tag = "FloatLit"
    /\ out[1].span.end = 7

IdentStart == Lower \cup Upper \cup {"_"}
IdentChar == IdentStart \cup Digit

\* The characters of input inside the span [s, e), as a string.
RECURSIVE TextOf(_, _)
TextOf(s, e) == IF s >= e THEN "" ELSE TextOf(s, e - 1) \o input[e]

\* The token kind of a reserved word, [tag |-> "Ident"] for any other word.
C11_Reserved(w) ==
    CASE w = "fn" -> [tag |-> "Fn"] [] w = "struct" -> [tag |-> "Struct"]
      [] w = "enum" -> [tag |-> "Enum"] [] w = "union" -> [tag |-> "Union"]
      [] w = "impl" -> [tag |-> "Impl"] [] w = "const" -> [tag |-> "Const"]
      [] w = "extern" -> [tag |-> "Extern"] [] w = "val" -> [tag |-> "Val"]
      [] w = "var" -> [tag |-> "Var"] [] w = "defer" -> [tag |-> "Defer"]
      [] w = "while" -> [tag |-> "While"] [] w = "for" -> [tag |-> "For"]
      [] w = "in" -> [tag |-> "In"] [] w = "loop" -> [tag |-> "Loop"]
      [] w = "if" -> [tag |-> "If"] [] w = "else" -> [tag |-> "Else"]
      [] w = "match" -> [tag |-> "Match"] [] w = "break" -> [tag |-> "Break"]
      [] w = "return" -> [tag |-> "Return"] [] w = "void" -> [tag |-> "Void"]
      [] w = "undefined" -> [tag |-> "Undefined"]
      [] w = "true" -> [tag |-> "BoolLit", value |-> TRUE]
      [] w = "false" -> [tag |-> "BoolLit", value |-> FALSE]
      [] w = "null" -> [tag |-> "Null"]
      [] OTHER -> [tag |-> "Ident"]

\* C11: a token that starts with a letter or '_' spans the maximal run of
\* letters, digits and '_'; it is the keyword token iff that text is
\* exactly one of the 24 reserved words, and else Ident with that text.
C11_KeywordOrIdent ==
    /\ lpanic = ""
    /\ \A i \in 1..Len(out) :
         LET s == out[i].span.start
             e == out[i].span.end
         IN  (s < Len(input) /\ input[s + 1] \in IdentStart) =>
               LET w == TextOf(s, e)
               IN  /\ \A p \in (s + 1)..e : input[p] \in IdentChar
                   /\ e < Len(input) => input[e + 1] \notin IdentChar
                   /\ out[i].kind =
                        IF C11_Reserved(w).tag = "Ident"
                        THEN [tag |-> "Ident", text |-> w]
                        ELSE C11_Reserved(w)
    \* a reserved word alone is never an Ident, a longer word always is
    /\ (input \in Keywords /\ calls >= 1) => out[1].kind.tag # "Ident"
    /\ (calls >= 1 /\ input \in Words \ (Keywords \cup OtherWords)) =>
         out[1].kind.tag = "Ident"

\* "undefined1" is an identifier.
C11_Witness ==
    /\ input = <<"u", "n", "d", "e", "f", "i", "n", "e", "d", "1">>
    /\ Len(out) = 2
    /\ out[1].kind = [tag |-> "Ident", text |-> "undefined1"]

(***************************************************************************)
(* Lexer: spans                                                            *)
(***************************************************************************)
\* The byte offsets of the input's character boundaries, computed from the
\* text alone.
Boundary(n) == ByteIdx(input, n)

\* The characters input[s+1..e] are all whitespace.
AllBlank(s, e) == \A p \in (s + 1)..e : is_whitespace(input[p])

\* The character boundary at which token i - 1 ended (0 before the first).
RECURSIVE EndOf(_)
EndOf(i) ==
    IF i = 0 THEN 0
    ELSE CHOOSE m \in 0..Len(input) : Boundary(m) = out[i].span.end

\* C12: every token's span is [start, end) in UTF-8 byte offsets: start is
\* the offset of the first character after the whitespace that follows the
\* previous token, end is the offset just past the last character the call
\* consumed, start <= end, no skipped whitespace lies inside the span, and a
\* multi-byte character earlier in the input shifts the span by its byte
\* length.
C12_SpanIsByteRange ==
    /\ \A i \in 1..Len(out) :
         \E k, m \in 0..Len(input) :
            /\ out[i].span = Span_new(Boundary(k), Boundary(m))
            /\ EndOf(i - 1) <= k /\ k <= m
            /\ AllBlank(EndOf(i - 1), k)
            /\ out[i].span.start <= out[i].span.end
            /\ out[i].kind.tag # "Eof" => k < m /\ ~is_whitespace(input[k + 1])
            /\ out[i].kind.tag = "Eof" => k = Len(input)
    /\ (lpanic = "" /\ Len(out) >= 1) =>
         /\ chars = EndOf(Len(out))
         /\ pos = out[Len(out)].span.end

\* A string token of four bytes and three characters, then an identifier at
\* byte 4.
C12_Witness ==
    /\ input = <<"\"", "é", "\"", "a">>
    /\ Len(out) = 2
    /\ out[1].span = Span_new(0, 4)
    /\ out[2] = [kind |-> [tag |-> "Ident", text |-> "a"], span |-> Span_new(4, 5)]

(***************************************************************************)
(* Lexer: end of input                                                     *)
(***************************************************************************)
\* The token next_token returns at the end of the input.
EofToken ==
    [kind |-> [tag |-> "Eof"],
     span |-> Span_new(Boundary(Len(input)), Boundary(Len(input)))]

\* C13: a call that finds only whitespace, or nothing, after the previous
\* token returns Eof with the empty span at the input's byte length ([0,0)
\* for the empty input); such a call never fails, and no other call returns
\* Eof.
C13_EofAtByteLength ==
    /\ \A i \in 1..Len(out) :
         IF AllBlank(EndOf(i - 1), Len(input))
         THEN out[i] = EofToken
         ELSE out[i].kind.tag # "Eof"
    /\ lpanic # "" => ~AllBlank(EndOf(Len(out)), Len(input))
    /\ (input = <<>> /\ calls >= 1) =>
         out[1] = [kind |-> [tag |-> "Eof"], span |-> Span_new(0, 0)]

\* A letter and four bytes of whitespace: Eof at [5,5), twice.
C13_Witness ==
    /\ input = <<"a", WideBlank, " ">>
    /\ Len(out) = 3
    /\ out[2] = [kind |-> [tag |-> "Eof"], span |-> Span_new(5, 5)]
    /\ out[3] = out[2]

(***************************************************************************)
(* Lexer: string literals                                                  *)
(***************************************************************************)
\* The index of the first character of the token that call i scans: the
\* first character that is not whitespace after the previous token; 0 when
\* there is none.
StartOf(i) ==
    LET e == EndOf(i - 1)
    IN  IF AllBlank(e, Len(input)) THEN 0
        ELSE CHOOSE p \in (e + 1)..Len(input) :
                 ~is_whitespace(input[p]) /\ AllBlank(e, p - 1)

\* The number of backslashes that stand immediately before index q, after
\* the opening quote at index o.
RECURSIVE BackslashRun(_, _)
BackslashRun(o, q) ==
    IF q - 1 > o /\ input[q - 1] = "\\" THEN 1 + BackslashRun(o, q - 1) ELSE 0

\* The unescaped double quotes after the opening quote at index o.
Unescaped(o) ==
    {q \in (o + 1)..Len(input) :
        input[q] = "\"" /\ BackslashRun(o, q) % 2 = 0}

Least(S) == CHOOSE q \in S : \A r \in S : q <= r

\* What an escaped character stands for.
Escape(c) ==
    CASE c = "n" -> "\n"
      [] c = "t" -> "\t"
      [] c = "r" -> "\r"
      [] c = "\"" -> "\""
      [] c = "\\" -> "\\"
      [] OTHER -> "\\" \o c

\* The content of the characters input[s..e], escapes replaced.
RECURSIVE Content(_, _)
Content(s, e) ==
    IF s > e THEN ""
    ELSE IF input[s] = "\\" THEN Escape(input[s + 1]) \o Content(s + 2, e)
    ELSE input[s] \o Content(s + 1, e)

\* C14: a call that starts at a double quote which has an unescaped double
\* quote after it returns a string token that ends at the first such quote
\* and whose content is the characters in between, with \n, \t, \r, \" and
\* \\ replaced and any other escaped character kept behind its backslash.
C14_StringContent ==
    \A i \in 1..calls :
        LET o == StartOf(i)
        IN  (i <= Len(out) + 1 /\ o # 0 /\ input[o] = "\""
                /\ Unescaped(o) # {}) =>
               LET q == Least(Unescaped(o))
               IN  /\ i <= Len(out)
                   /\ out[i].kind =
                        [tag |-> "StringLit", text |-> Content(o + 1, q - 1)]
                   /\ out[i].span =
                        Span_new(Boundary(o - 1), Boundary(q))

\* The text "a\nb" in quotes gives a, newline, b.
C14_Witness ==
    /\ input = <<"\"", "a", "\\", "n", "b", "\"">>
    /\ Len(out) >= 1
    /\ out[1] = [kind |-> [tag |-> "StringLit", text |-> "a\nb"],
                 span |-> Span_new(0, 6)]

(***************************************************************************)
(* Lexer: fatal errors                                                     *)
(***************************************************************************)
\* The characters that start a token.
Punctuation ==
    {"(", ")", "{", "}", "[", "]", ",", ".", ":", ";", "?", "+", "-", "*",
     "/", "%", "!", "@", "|", "&", "^", ">", "<", "~", "="}
TokenStart == Punctuation \cup Digit \cup Lower \cup Upper \cup {"_", "\"", "'"}

\* Call i is the last call made, it returned no token and it failed with msg.
Failed(i, msg) == i = Len(out) + 1 /\ i = calls /\ lpanic = msg

\* C15: a call whose first character after the whitespace starts no token
\* fails as an unknown character, and a call that starts at a double quote
\* with no unescaped double quote after it (the input may end right after a
\* backslash) fails as an unterminated string; in both cases no token is
\* returned for that call.
C15_FatalErrors ==
    \A i \in 1..calls :
        LET o == StartOf(i)
        IN  (i <= Len(out) + 1 /\ o # 0) =>
               /\ input[o] \notin TokenStart => Failed(i, "Unknown char")
               /\ (input[o] = "\"" /\ Unescaped(o) = {}) =>
                     Failed(i, "Unterminated string literal")

\* After an identifier, a string whose input ends right after a backslash.
C15_Witness ==
    /\ input = <<"a", "\"", "\\">>
    /\ calls = 2
    /\ Len(out) = 1
    /\ lpanic = "Unterminated string literal"

(***************************************************************************)
(* Lexer: character literals                                               *)
(***************************************************************************)
\* C16: a call that starts at a single quote at index o takes the one
\* character c after it, whatever it is, and requires a single quote right
\* after c: it returns Char(c) over the three characters when the quote is
\* there, and fails when the input ends after the opening quote, ends
\* after c, or has another character in the quote's place.
C16_CharLiteral ==
    \A i \in 1..calls :
        LET o == StartOf(i)
        IN  (i <= Len(out) + 1 /\ o # 0 /\ input[o] = "'") =>
               /\ o = Len(input) => Failed(i, "Unterminated char literal")
               /\ o + 1 = Len(input) => Failed(i, "Unexpected end of input")
               /\ (o + 2 <= Len(input) /\ input[o + 2] # "'") =>
                     Failed(i, "Expected char")
               /\ (o + 2 <= Len(input) /\ input[o + 2] = "'") =>
                     /\ i <= Len(out)
                     /\ out[i] =
                          [kind |-> [tag |-> "Char", value |-> input[o + 1]],
                           span |-> Span_new(Boundary(o - 1), Boundary(o + 2))]

\* A two-byte character in quotes, then a single quote at the end of the input.
C16_Witness ==
    /\ input = <<"'", "é", "'", "'">>
    /\ out = <<[kind |-> [tag |-> "Char", value |-> "é"],
                span |-> Span_new(0, 4)]>>
    /\ lpanic = "Unterminated char literal"

(***************************************************************************)
(* CompilerCtx: the claims                                                 *)
(***************************************************************************)
\* Some report call so far had level Error.
ErrorReported == \E i \in DOMAIN reported : reported[i].level = "Error"

\* C17: after any sequence of report calls has_errors() is true exactly when
\* one of the calls had level Error (false with only Info and Warning, or
\* none), a has_errors() call returns that, and once true it stays true
\* after every later call.
C17_HasErrorsIffErrorReported ==
    /\ has_errors(ctx) <=> ErrorReported
    /\ cret.op = "has_errors" => cret.result = ErrorReported
    /\ has_errors(cret.before) => has_errors(ctx)

\* An Error, then a Warning, then has_errors() answers true.
C17_Witness ==
    /\ Len(reported) = 2
    /\ reported[1].level = "Error"
    /\ reported[2].level = "Warning"
    /\ cret.op = "has_errors"
    /\ cret.result = TRUE

\* C18: a report call appends one diagnostic with its arguments at the end
\* and changes nothing else of the context (interner, AST arenas, target,
\* current_pass), also when an Error was recorded before; no call removes
\* or reorders a diagnostic, and the diagnostics are the reports made, in
\* order.
C18_ReportAppendsOnly ==
    /\ cret.op = "report" =>
         /\ reported # <<>>
         /\ ctx = [cret.before EXCEPT
                     !.diagnostics = Append(@, reported[Len(reported)])]
         /\ Len(ctx.diagnostics) = Len(cret.before.diagnostics) + 1
    /\ Len(cret.before.diagnostics) <= Len(ctx.diagnostics)
    /\ SubSeq(ctx.diagnostics, 1, Len(cret.before.diagnostics))
          = cret.before.diagnostics
    /\ cret.op \in {"intern", "has_errors"} =>
          ctx.diagnostics = cret.before.diagnostics
    /\ ctx.diagnostics = reported

\* A report made, and recorded, after an Error.
C18_Witness ==
    /\ cret.op = "report"
    /\ has_errors(cret.before)
    /\ Len(ctx.diagnostics) = 3
    /\ ctx.diagnostics[3] = Diagnostic("Info", "unused", Span_new(4, 4))

(***************************************************************************)
(* Arena: the chunks                                                       *)
(***************************************************************************)
\* C19: with chunk_size k >= 1, after n alloc calls there are n div k sealed
\* chunks of exactly k elements each and the current chunk holds n mod k
\* elements, fewer than k; an alloc seals the current chunk exactly when the
\* push brings it to k elements, and leaves the chunks sealed before it as
\* they were.
C19_ChunkStructure ==
    LET k == arena.chunk_size
        n == Len(ids)
        b == ret.before
    IN  k >= 1 =>
          /\ Len(arena.chunks) = n \div k
          /\ \A c \in DOMAIN arena.chunks : Len(arena.chunks[c]) = k
          /\ Len(arena.chunk) = n % k
          /\ Len(arena.chunk) < k
          /\ ret.op = "alloc" =>
                /\ SubSeq(arena.chunks, 1, Len(b.chunks)) = b.chunks
                /\ IF Len(b.chunk) + 1 = k
                   THEN /\ arena.chunks = Append(b.chunks, Append(b.chunk, ret.item))
                        /\ arena.chunk = <<>>
                   ELSE /\ arena.chunks = b.chunks
                        /\ arena.chunk = Append(b.chunk, ret.item)

\* Four allocations with chunk_size 2: the fourth seals the second chunk.
C19_Witness ==
    /\ arena.chunk_size = 2
    /\ Len(ids) = 4
    /\ ret.op = "alloc"
    /\ Len(arena.chunks) = 2
    /\ arena.chunk = <<>>

(***************************************************************************)
(* Interner: dense and injective Symbols                                   *)
(***************************************************************************)
\* C20: after intern calls with d distinct strings the Symbols issued are
\* exactly 0..d-1, in the order of the strings' first calls, and no two
\* strings share one; the stored strings and the map both hold those d
\* entries with map[strings[i]] = i; a call for a string interned before
\* returns its Symbol and leaves strings and map as they were, a call for a
\* new string returns d.
C20_DenseInjective ==
    LET d == Len(seen)
    IN  /\ DOMAIN first = {seen[i] : i \in 1..d}
        /\ \A i \in 1..d : first[seen[i]] = i - 1
        /\ {first[s] : s \in DOMAIN first} = 0..(d - 1)
        /\ \A s, t \in DOMAIN first : s # t => first[s] # first[t]
        /\ Len(interner.strings) = d
        /\ Cardinality(DOMAIN interner.map) = d
        /\ \A i \in 1..d : /\ interner.strings[i] \in DOMAIN interner.map
                            /\ interner.map[interner.strings[i]] = i - 1
                            /\ interner.strings[i] = seen[i]
        /\ iret.op = "intern" =>
              IF iret.s \in DOMAIN iret.before.map
              THEN /\ interner = iret.before
                   /\ iret.sym = first[iret.s]
              ELSE /\ iret.sym = d - 1
                   /\ iret.s = seen[d]
                   /\ Len(iret.before.strings) = d - 1

\* Three distinct strings, then the first of them again.
C20_Witness ==
    /\ icalls = 4
    /\ Len(seen) = 3
    /\ iret.op = "intern"
    /\ iret.s = seen[1]
    /\ iret.sym = 0
    /\ interner.strings = seen

(***************************************************************************)
(* Lexer: termination                                                      *)
(***************************************************************************)
\* Some call so far returned Eof.
EofReturned == \E i \in 1..Len(out) : out[i].kind.tag = "Eof"

\* C21: every call made has returned a token or failed; a call that returns
\* a token other than Eof consumes at least one character; so after L + 1
\* calls on an input of L characters Eof was returned or lexing failed.
C21_LexingFinishes ==
    /\ calls = Len(out) + (IF lpanic # "" THEN 1 ELSE 0)
    /\ chars <= Len(input)
    /\ \A i \in 1..Len(out) :
         out[i].kind.tag # "Eof" => EndOf(i) > EndOf(i - 1)
    /\ Cardinality({i \in 1..Len(out) : out[i].kind.tag # "Eof"}) <= Len(input)
    /\ calls >= Len(input) + 1 => (EofReturned \/ lpanic # "")

\* Three one-character tokens: Eof comes with the fourth call, not earlier.
C21_Witness ==
    /\ input = <<"1", "+", "a">>
    /\ calls = 4
    /\ Len(out) = 4
    /\ out[3].kind.tag = "Ident"
    /\ out[4].kind.tag = "Eof"

(***************************************************************************)
(* Lexer: integers beyond 64 bits                                          *)
(***************************************************************************)
\* The last index of the run of digits and '_' that starts at index o.
RunEnd(o) ==
    CHOOSE e \in o..Len(input) :
        /\ \A p \in o..e : input[p] \in Digit \cup {"_"}
        /\ e < Len(input) => input[e + 1] \notin Digit \cup {"_"}

\* The value the digits of input[o..e] denote: the digits, most significant
\* first, without leading zeros.
DigitsValue(o, e) ==
    StripLeadingZeros(
        [i \in 1..Len(SelectSeq(SubSeq(input, o, e), NotUnderscore)) |->
            DigitValue(SelectSeq(SubSeq(input, o, e), NotUnderscore)[i])])

\* v > 9223372036854775807: more than 19 digits, or 19 digits with the
\* larger digit at the first place where the two differ.
AboveI64Max(v) ==
    \/ Len(v) > 19
    \/ /\ Len(v) = 19
       /\ v # I64Max
       /\ LET d == CHOOSE i \in 1..19 :
                       v[i] # I64Max[i] /\ \A j \in 1..(i - 1) : v[j] = I64Max[j]
          IN  v[d] > I64Max[d]

\* C22: a call that scans an integer literal whose digits, '_' removed,
\* denote more than 9223372036854775807 fails; otherwise it returns
\* IntegerLit with exactly the value of the digits.  No IntegerLit carries
\* a wrapped, truncated or saturated value.
C22_IntegerOverflowFails ==
    \A i \in 1..calls :
        LET o == StartOf(i)
        IN  (/\ i <= Len(out) + 1
             /\ o # 0
             /\ input[o] \in Digit
             /\ (RunEnd(o) < Len(input) => input[RunEnd(o) + 1] # ".")) =>
               LET v == DigitsValue(o, RunEnd(o))
               IN  IF AboveI64Max(v)
                   THEN Failed(i, "Invalid integer literal")
                   ELSE /\ i <= Len(out)
                        /\ out[i].kind = [tag |-> "IntegerLit", value |-> v]
                        /\ EndOf(i) = RunEnd(o)

\* 9223372036854775808, one more than the maximum, is refused.
C22_Witness ==
    /\ input = I64MaxHead \o <<"8">>
    /\ calls = 1
    /\ out = <<>>
    /\ lpanic = "Invalid integer literal"

(***************************************************************************)
(* Lexer: calls after the end of the input                                 *)
(***************************************************************************)
\* C23: once a call has returned Eof, every later call returns the same
\* token, Eof with the same empty span, and none fails.
C23_EofAbsorbing ==
    /\ \A i \in 1..Len(out) :
         out[i].kind.tag = "Eof" =>
           /\ out[i].span.start = out[i].span.end
           /\ \A j \in i..Len(out) : out[j] = out[i]
    /\ EofReturned => (lpanic = "" /\ calls = Len(out))

\* A letter and a blank: the second, third and fourth call return Eof at 2.
C23_Witness ==
    /\ input = <<"a", " ">>
    /\ calls = 4
    /\ out[2] = [kind |-> [tag |-> "Eof"], span |-> Span_new(2, 2)]
    /\ out[3] = out[2]
    /\ out[4] = out[2]

====
